---- MODULE Spec2Model ----
(***************************************************************************)
(* The Reaction renderer of uchroma (uchroma/fxlib/reaction.py): its       *)
(* configuration traits, the observers of those traits, the constructor's  *)
(* default initialisation and the per-frame draw cycle.                    *)
(*                                                                         *)
(* Times are in hundredths of a second, percent_complete in thousandths.   *)
(***************************************************************************)
EXTENDS Integers, Sequences, FiniteSets, TLC

\* ------------------------------------------------------------- constants

DEFAULT_SPEED == 6
MAX_SPEED == 9
\* 0.25 s, in hundredths of a second
EXPIRE_TIME_FACTOR == 25
\* steps=100 in _set_colors
GRADIENT_STEPS == 100
\* percent_complete <= 0.15, in thousandths
FADE_THRESHOLD == 150
\* percent_complete is a fraction of PERCENT_UNIT (1.0)
PERCENT_UNIT == 1000

REACT_COLOR_KEY == "reaction_color"

\* --------------------------------------------------------------- bounds

\* the longest batch of new key events the host delivers in one frame
MaxEvents == 2

\* ---------------------------------------------------------------- values

None == [kind |-> "None"]
Rgba(r, g, b, a) == [kind |-> "Color", rgba |-> <<r, g, b, a>>]
Html(s) == [kind |-> "str", html |-> s]

Black == Rgba(0, 0, 0, 1)
White == Rgba(1, 1, 1, 1)

\* the values a ColorTrait can be set to, None for "undefined"
ColorValues == {None, Black, White}
SpeedValues == 1..MAX_SPEED

\* the colours configured together with the draw cycle, which reads no speed
DrawColorValues == {Black, White}

TraitNames == {"speed", "background_color", "color"}

VARIABLES
    constructed,       \* FALSE while inside super().__init__, TRUE after __init__
    speed,             \* trait
    background_color,  \* trait
    color,             \* trait
    init_speed,        \* hasattr(self, 'init_speed')
    init_colors,       \* hasattr(self, 'init_colors')
    key_expire_time,   \* 0 while the attribute does not exist
    _gradient,         \* None while no table has been built
    _gradient_count,   \* 0 while the attribute does not exist
    pending,           \* change notifications held back by the open transaction
    txn,               \* names of the traits the last transaction changed
    rebuilds,          \* _set_colors calls since the last transaction began
    scheme_call,       \* the last ColorUtils.color_scheme call: who made it, its
                       \* arguments, and the background colour it was made for
    applied,           \* the configuration steps applied so far, explicit or default
    events_in,         \* the batch get_input_events returned, as delivered
    events,            \* the same events after processing (data bags updated)
    writes,            \* the layer.put calls of the last draw, in order
    errors,            \* the events logger.error was called with in the last draw
    ret                \* what the last draw returned

config == <<constructed, speed, background_color, color, init_speed, init_colors,
            key_expire_time, _gradient, _gradient_count, pending, txn, rebuilds,
            scheme_call, applied>>
frame == <<events_in, events, writes, errors, ret>>
vars == <<config, frame>>

\* ------------------------------------------------------------- util.py

\* to_color: None stays None, a Color stays itself, a string is parsed as
\* an HTML colour
to_color(arg) ==
    IF arg = None THEN None
    ELSE IF arg.kind = "Color" THEN arg
    ELSE IF arg.html = "#000000" THEN Black
    ELSE White

\* ------------------------------------------------------ the colour library

\* ColorUtils.color_scheme(color, base_color, steps): a table of `steps`
\* colours from `color` (index 0) towards `base_color`.  The table is kept
\* as what determines it; len_ and Entry read it.
color_scheme(c, base_color, steps) ==
    [kind |-> "list", color |-> to_color(c), base_color |-> to_color(base_color),
     steps |-> steps]

\* len(table)
len_(table) == table.steps

\* table[idx] for an index inside the table: the colour of step idx
Entry(table, idx) ==
    [kind |-> "Color", scheme |-> <<table.color, table.base_color, idx>>]

\* ----------------------------------------------------------- reaction.py

\* a _set_speed that leaves out the "+ 1"
_set_speed_off_by_one(value) == (MAX_SPEED - value) * EXPIRE_TIME_FACTOR

_set_speed(value) == (MAX_SPEED + 1 - value) * EXPIRE_TIME_FACTOR

\* a _set_colors that records the last index instead of the length
_set_colors_last_index(bg_color, c) ==
    LET g == color_scheme(c, bg_color, GRADIENT_STEPS)
    IN  <<g, len_(g) - 1>>

\* _set_colors: the new <<_gradient, _gradient_count>>
_set_colors(bg_color, c) ==
    LET g == color_scheme(c, bg_color, GRADIENT_STEPS)
    IN  <<g, len_(g)>>

\* an _update_colors that hands the background on as it is
BackgroundAsIs(bg_color) == bg_color

\* the base colour _update_colors hands on: opaque black means "unset"
NormalizedBackground(bg_color) ==
    IF bg_color = Rgba(0, 0, 0, 1) THEN None ELSE bg_color

NoCall == [caller |-> "", color |-> None, base_color |-> None, background |-> None]

\* The object as super().__init__ finds it: the traits hold their defaults
\* (speed 6; an unset colour trait is opaque black) and none of the
\* attributes the observers and __init__ create exists yet.
Init ==
    /\ constructed = FALSE
    /\ speed = DEFAULT_SPEED
    /\ background_color = Black
    /\ color = Black
    /\ init_speed = FALSE
    /\ init_colors = FALSE
    /\ key_expire_time = 0
    /\ _gradient = None
    /\ _gradient_count = 0
    /\ pending = <<>>
    /\ txn = {}
    /\ rebuilds = 0
    /\ scheme_call = NoCall
    /\ applied = {}
    /\ events_in = <<>>
    /\ events = <<>>
    /\ writes = <<>>
    /\ errors = <<>>
    /\ ret = "none"

\* every order in which the names of a set can be notified
Orders(S) ==
    {o \in [1..Cardinality(S) -> S] : \A i, j \in 1..Cardinality(S) : o[i] = o[j] => i = j}

TraitValue(name, sv, bv, cv) ==
    IF name = "speed" THEN [kind |-> "Int", int |-> sv]
    ELSE IF name = "background_color" THEN bv
    ELSE cv

\* The host assigns one or more traits in one transaction (the keyword
\* arguments of the constructor, or a later configuration update).  A trait
\* whose value does not change is not notified; the notifications of the
\* others are delivered one per trait when the transaction closes.
SetTraits(speeds, colors, most) ==
    /\ pending = <<>>
    /\ \E sv \in speeds \cup {speed}, bv \in colors \cup {background_color},
          cv \in colors \cup {color} :
         LET changed == {n \in TraitNames :
                            \/ n = "speed" /\ sv # speed
                            \/ n = "background_color" /\ bv # background_color
                            \/ n = "color" /\ cv # color}
         IN  /\ changed # {}
             /\ Cardinality(changed) <= most
             /\ \E o \in Orders(changed) :
                  pending' = [i \in 1..Cardinality(changed) |->
                                 [name |-> o[i], new |-> TraitValue(o[i], sv, bv, cv)]]
             /\ speed' = sv
             /\ background_color' = bv
             /\ color' = cv
             /\ txn' = changed
    /\ rebuilds' = 0
    /\ UNCHANGED <<constructed, init_speed, init_colors, key_expire_time, _gradient,
                   _gradient_count, scheme_call, applied>>
    /\ UNCHANGED frame

\* @observe('speed')
_change_speed ==
    /\ pending # <<>>
    /\ Head(pending).name = "speed"
    /\ init_speed' = TRUE
    /\ key_expire_time' = _set_speed(Head(pending).new.int)
    /\ applied' = applied \cup {"speed"}
    /\ pending' = Tail(pending)
    /\ UNCHANGED <<constructed, speed, background_color, color, init_colors, _gradient,
                   _gradient_count, txn, rebuilds, scheme_call>>
    /\ UNCHANGED frame

\* an _update_colors without the test for an undefined value
IgnoresNothing(change) == FALSE

\* line 128: an undefined new value is ignored
IgnoresChange(change) == change.new = None

\* @observe('background_color', 'color')
_update_colors ==
    /\ pending # <<>>
    /\ Head(pending).name \in {"background_color", "color"}
    /\ pending' = Tail(pending)
    /\ IF IgnoresChange(Head(pending))
       THEN UNCHANGED <<init_colors, _gradient, _gradient_count, rebuilds, scheme_call,
                        applied>>
       ELSE LET bg_color == NormalizedBackground(background_color)
                built == _set_colors(bg_color, color)
            IN  /\ init_colors' = TRUE
                /\ _gradient' = built[1]
                /\ _gradient_count' = built[2]
                /\ rebuilds' = rebuilds + 1
                /\ scheme_call' = [caller |-> "_update_colors", color |-> color,
                                   base_color |-> bg_color,
                                   background |-> background_color]
                /\ applied' = applied \cup {"colors"}
    /\ UNCHANGED <<constructed, speed, background_color, color, init_speed,
                   key_expire_time, txn>>
    /\ UNCHANGED frame

\* an __init__ without the hasattr(self, 'init_speed') guard
InitSpeedUnguarded == _set_speed(DEFAULT_SPEED)

\* the default speed step of __init__
InitSpeed == IF init_speed THEN key_expire_time ELSE _set_speed(DEFAULT_SPEED)

\* the default colours step of __init__
InitColors ==
    IF init_colors THEN <<_gradient, _gradient_count>>
    ELSE _set_colors(Html("#000000"), Html("#FFFFFF"))

\* Reaction.__init__ after super().__init__ has returned
__init__ ==
    /\ ~constructed
    /\ pending = <<>>
    /\ constructed' = TRUE
    /\ key_expire_time' = InitSpeed
    /\ _gradient' = InitColors[1]
    /\ _gradient_count' = InitColors[2]
    /\ IF init_colors
       THEN UNCHANGED <<rebuilds, scheme_call>>
       ELSE /\ rebuilds' = rebuilds + 1
            /\ scheme_call' = [caller |-> "__init__", color |-> Html("#FFFFFF"),
                               base_color |-> Html("#000000"),
                               background |-> to_color(Html("#000000"))]
    /\ applied' = applied \cup (IF init_speed THEN {} ELSE {"default_speed"})
                          \cup (IF init_colors THEN {} ELSE {"default_colors"})
    /\ UNCHANGED <<speed, background_color, color, init_speed, init_colors, pending, txn>>
    /\ UNCHANGED frame

Next ==
    \/ SetTraits(SpeedValues, ColorValues, Cardinality(TraitNames))
    \/ _change_speed
    \/ _update_colors
    \/ __init__

Spec == Init /\ [][Next]_vars


\* ------------------------------------------------------------ the host

\* a key event of the host's input queue
KeyInputEvent(coords, percent_complete, data) ==
    [kind |-> "KeyInputEvent", coords |-> coords,
     percent_complete |-> percent_complete, data |-> data]

Coords(items) == [kind |-> "list", items |-> items]
Coord(y, x) == [y |-> y, x |-> x]
EmptyData == [k \in {} |-> None]

\* the coordinate sets an event arrives with: missing, empty, two keys
CoordValues == {None, Coords(<<>>), Coords(<<Coord(0, 0), Coord(0, 1)>>)}

\* percent_complete of an active event from frame to frame, in thousandths
PercentLadder == <<1000, 505, 160, 150, 0>>

RECURSIVE SeqsUpTo(_, _)
SeqsUpTo(S, n) ==
    IF n = 0 THEN {<<>>}
    ELSE LET shorter == SeqsUpTo(S, n - 1)
         IN  shorter \cup {Append(q, e) : q \in {r \in shorter : Len(r) = n - 1}, e \in S}

\* batches of newly pressed keys
FreshBatches ==
    SeqsUpTo({KeyInputEvent(c, PercentLadder[1], EmptyData) : c \in CoordValues}, MaxEvents)

Rung(percent_complete) ==
    CHOOSE i \in DOMAIN PercentLadder : PercentLadder[i] = percent_complete

RECURSIVE Aged(_)
\* the events of the last frame that are still active, one frame older;
\* they are the same objects, so they keep their data bags
Aged(evs) ==
    IF evs = <<>> THEN <<>>
    ELSE LET e == Head(evs)
             r == Rung(e.percent_complete)
         IN  IF r = Len(PercentLadder) THEN Aged(Tail(evs))
             ELSE <<[e EXCEPT !.percent_complete = PercentLadder[r + 1]]>> \o Aged(Tail(evs))

\* ------------------------------------------------------- the draw cycle

\* REACT_COLOR_KEY in events: Python compares the string with each element
\* of the list, and a string equals no key event
KeyInList(key, list) ==
    \E i \in DOMAIN list : list[i].kind = "str" /\ list[i].str = key

\* line 85: whether the colour of `event` is resolved again
MustResolve(event, batch) == ~KeyInList(REACT_COLOR_KEY, batch)

\* line 88, int() of a non-negative float
GradientIndex(percent_complete, count) ==
    (count * PERCENT_UNIT - percent_complete * count) \div PERCENT_UNIT

\* a threshold test that excludes the boundary
UseBackgroundBelow(percent_complete) == percent_complete < FADE_THRESHOLD

UseBackground(percent_complete) == percent_complete <= FADE_THRESHOLD

SetItem(data, key, value) ==
    [k \in DOMAIN data \cup {key} |-> IF k = key THEN value ELSE data[k]]

\* line 94 raises IndexError for an index outside the table
IndexError(idx) == idx \notin 0..(len_(_gradient) - 1)

\* lines 85-94: the event with its resolved colour in the data bag
ResolveColor(event, batch) ==
    IF MustResolve(event, batch)
    THEN LET idx == GradientIndex(event.percent_complete, _gradient_count)
         IN  IF UseBackground(event.percent_complete)
             THEN [event EXCEPT !.data = SetItem(@, REACT_COLOR_KEY, background_color)]
             ELSE IF IndexError(idx) THEN event
             ELSE [event EXCEPT !.data = SetItem(@, REACT_COLOR_KEY, Entry(_gradient, idx))]
    ELSE event

\* whether resolving the colour of `event` raises
ResolveRaises(event, batch) ==
    /\ MustResolve(event, batch)
    /\ ~UseBackground(event.percent_complete)
    /\ IndexError(GradientIndex(event.percent_complete, _gradient_count))

\* a _react_keys that only tests for missing coordinates
HasNoCoordsOnlyNone(event) == event.coords = None

HasNoCoords(event) ==
    \/ event.coords = None
    \/ Len(event.coords.items) = 0

\* _react_keys: the layer.put calls and the logged errors it adds
_react_keys(event) ==
    IF HasNoCoords(event)
    THEN [puts |-> <<>>, logged |-> <<event>>, raised |-> FALSE]
    ELSE IF REACT_COLOR_KEY \notin DOMAIN event.data
    THEN [puts |-> <<>>, logged |-> <<>>, raised |-> TRUE]
    ELSE [puts |-> [i \in 1..Len(event.coords.items) |->
                       [y |-> event.coords.items[i].y, x |-> event.coords.items[i].x,
                        color |-> event.data[REACT_COLOR_KEY]]],
          logged |-> <<>>, raised |-> FALSE]

RECURSIVE ProcessFrom(_, _, _)
\* the loop of _process_events from event i on; acc is the frame so far
ProcessFrom(i, batch, acc) ==
    IF i > Len(batch) \/ acc.raised THEN acc
    ELSE LET event == ResolveColor(batch[i], batch)
             r == _react_keys(event)
         IN  IF ResolveRaises(batch[i], batch)
             THEN [acc EXCEPT !.events = Append(@, event), !.raised = TRUE]
             ELSE ProcessFrom(i + 1, batch,
                      [events |-> Append(acc.events, event),
                       writes |-> acc.writes \o r.puts,
                       errors |-> acc.errors \o r.logged,
                       raised |-> r.raised])

NoFrame(batch) == [events |-> batch, writes |-> <<>>, errors |-> <<>>, raised |-> FALSE]

_process_events(batch) ==
    IF _gradient = None THEN NoFrame(batch)
    ELSE LET done == ProcessFrom(1, batch, NoFrame(<<>>))
         IN  [done EXCEPT !.events = @ \o SubSeq(batch, Len(@) + 1, Len(batch))]

\* a draw that reports a change for every frame
DrawResultAlways(batch) == TRUE

\* what draw returns for a batch
DrawResult(batch) == Len(batch) > 0

\* draw(layer, timestamp) on a fresh layer, for the batch the host delivers:
\* newly pressed keys, or the still active events of the last frame
draw ==
    /\ constructed
    /\ pending = <<>>
    /\ \E batch \in FreshBatches \cup {Aged(events)} :
         LET done == IF Len(batch) > 0 THEN _process_events(batch) ELSE NoFrame(batch)
         IN  /\ events_in' = batch
             /\ events' = done.events
             /\ writes' = done.writes
             /\ errors' = done.errors
             /\ ret' = IF done.raised THEN "raised"
                       ELSE IF DrawResult(batch) THEN "True" ELSE "False"
    /\ UNCHANGED config

\* The draw cycle next to colour changes, one trait per transaction.  draw
\* reads _gradient, _gradient_count and background_color and no speed, so
\* the speed stays at its default here.
NextDraw ==
    \/ SetTraits({}, DrawColorValues, 1)
    \/ _update_colors
    \/ __init__
    \/ draw

SpecDraw == Init /\ [][NextDraw]_vars


\* ----------------------------------------------------------------- claims

NoSpeedPending == \A i \in DOMAIN pending : pending[i].name # "speed"

\* C1: once a speed has been applied (by the constructor or by the speed
\* observer, also when the observer ran before the constructor's default
\* step) and no speed notification is outstanding, key_expire_time is
\* (9 + 1 - speed) * 0.25 s for the configured speed: 1.0 s for speed 6,
\* 0.25 s for speed 9, 2.25 s for speed 1.
C1_ExpireTimeFollowsSpeed ==
    ((constructed \/ init_speed) /\ NoSpeedPending) =>
        /\ speed \in 1..9
        /\ key_expire_time = (9 + 1 - speed) * 25
        /\ (speed = 6 => key_expire_time = 100)
        /\ (speed = 9 => key_expire_time = 25)
        /\ (speed = 1 => key_expire_time = 225)

\* a speed of 1 set before the constructor's default step, still in force
\* after construction
C1_Witness ==
    /\ constructed
    /\ "speed" \in applied
    /\ "default_speed" \notin applied
    /\ speed = 1
    /\ key_expire_time = 225

\* a draw has just returned: the frame variables changed
DrawStep == frame' # frame

HasCoords(e) == e.coords # None /\ Len(e.coords.items) > 0

RECURSIVE CoordsBefore(_, _)
\* the number of coordinates of the events before event i that have any
CoordsBefore(batch, i) ==
    IF i = 1 THEN 0
    ELSE CoordsBefore(batch, i - 1)
         + (IF HasCoords(batch[i - 1]) THEN Len(batch[i - 1].coords.items) ELSE 0)

\* C2: for every event a draw processes, the colour resolved and written to
\* its coordinates is background_color itself when percent_complete <= 0.15,
\* and otherwise the gradient entry at
\* floor(table_length - percent_complete * table_length), which is entry 0
\* at percent_complete = 1.0.
C2_ResolvedColor ==
    [][DrawStep =>
        \A i \in DOMAIN events_in' :
            LET pc == events_in'[i].percent_complete
                n == len_(_gradient)
                resolved == events'[i].data[REACT_COLOR_KEY]
            IN  /\ pc * 100 <= 15 * 1000 => resolved = background_color
                /\ pc * 100 > 15 * 1000 =>
                       resolved = Entry(_gradient, (n * 1000 - pc * n) \div 1000)
                /\ pc = 1000 => resolved = Entry(_gradient, 0)
                /\ HasCoords(events_in'[i]) =>
                       \A k \in 1..Len(events_in'[i].coords.items) :
                           writes'[CoordsBefore(events_in', i) + k].color = resolved
      ]_vars

\* a frame with a written event exactly at percent_complete = 0.15
C2_Witness ==
    /\ ret = "True"
    /\ writes # <<>>
    /\ \E i \in DOMAIN events_in :
         /\ events_in[i].percent_complete = 150
         /\ HasCoords(events_in[i])
         /\ events[i].data[REACT_COLOR_KEY] = background_color

\* C3: a draw whose batch is empty returns False and writes nothing to the
\* layer; a draw whose batch holds at least one event returns True.
C3_DrawReturn ==
    ret # "none" =>
        /\ events_in = <<>> => (ret = "False" /\ writes = <<>>)
        /\ events_in # <<>> => ret = "True"

\* a frame of two events that was processed and reported as changed
C3_Witness ==
    /\ ret = "True"
    /\ Len(events_in) = 2
    /\ writes # <<>>

\* C4: an event without coordinates (missing or empty) adds no layer write
\* and exactly one logged error, draw does not raise, and every event of the
\* batch that has coordinates, before or after it, has each of them written.
C4_MalformedEventSkipped ==
    ret # "none" =>
        /\ ret # "raised"
        /\ Len(errors) = Cardinality({i \in DOMAIN events_in : ~HasCoords(events_in[i])})
        /\ \A k \in DOMAIN errors : ~HasCoords(errors[k])
        /\ Len(writes) = CoordsBefore(events_in, Len(events_in) + 1)
        /\ \A i \in DOMAIN events_in :
             HasCoords(events_in[i]) =>
                 \A k \in 1..Len(events_in[i].coords.items) :
                     LET w == writes[CoordsBefore(events_in, i) + k]
                         c == events_in[i].coords.items[k]
                     IN  /\ w.y = c.y
                         /\ w.x = c.x
                         /\ w.color = events[i].data[REACT_COLOR_KEY]

\* a frame whose first event has an empty coordinate list and whose second
\* event is written
C4_Witness ==
    /\ Len(events_in) = 2
    /\ events_in[1].coords = Coords(<<>>)
    /\ HasCoords(events_in[2])
    /\ Len(errors) = 1
    /\ Len(writes) = Len(events_in[2].coords.items)

\* C5: when one transaction has changed both background_color and color (to
\* defined values) and its notifications are delivered, the gradient table
\* has been rebuilt exactly once.
C5_RebuiltOncePerTransaction ==
    (/\ pending = <<>>
     /\ {"background_color", "color"} \subseteq txn
     /\ background_color # None
     /\ color # None) => rebuilds = 1

\* C6: once the table is built (after construction, or after a colour change
\* before it) it has exactly 100 entries and _gradient_count is its length.
C6_GradientLength ==
    (constructed \/ init_colors) =>
        /\ _gradient # None
        /\ len_(_gradient) = 100
        /\ _gradient_count = len_(_gradient)

\* constructed, with the table rebuilt by a colour change and a speed change
\* handled
C6_Witness ==
    /\ constructed
    /\ {"speed", "colors", "default_colors"} \subseteq applied
    /\ scheme_call.caller = "_update_colors"
    /\ len_(_gradient) = 100

\* the colour observer is given an undefined new value
NoneColorChange ==
    /\ pending # <<>>
    /\ Head(pending).name \in {"background_color", "color"}
    /\ Head(pending).new = None
    /\ pending' = Tail(pending)

\* C7: a background_color or color notification whose new value is None
\* leaves the gradient table and its recorded length as they are, rebuilds
\* nothing and does not set the "explicit colours" marker.
C7_NoneChangeIsNoOp ==
    [][NoneColorChange =>
        /\ _gradient' = _gradient
        /\ _gradient_count' = _gradient_count
        /\ rebuilds' = rebuilds
        /\ scheme_call' = scheme_call
        /\ init_colors' = init_colors
      ]_vars

\* a finished transaction that set background_color alone, to None, on a
\* constructed effect whose marker is still unset: no rebuild took place
C7_Witness ==
    /\ constructed
    /\ pending = <<>>
    /\ txn = {"background_color"}
    /\ background_color = None
    /\ rebuilds = 0
    /\ ~init_colors
    /\ len_(_gradient) = 100

\* C8 as claimed: every build of the table made for an opaque black
\* background, by the colour observer or by the constructor, hands None as
\* the base colour.
C8_BlackIsNeverHandedOn ==
    (scheme_call.caller # "" /\ scheme_call.background = Black) =>
        scheme_call.base_color = None

\* C8, amended: a build by the colour observer for an opaque black
\* background hands None as the base colour; the constructor's default
\* build hands the literal "#000000".
C8_ObserverNormalizesBlack ==
    /\ (scheme_call.caller = "_update_colors" /\ scheme_call.background = Black) =>
           scheme_call.base_color = None
    /\ scheme_call.caller = "__init__" => scheme_call.base_color = Html("#000000")

\* the observer built the table while background_color was opaque black
C8_Witness ==
    /\ scheme_call.caller = "_update_colors"
    /\ scheme_call.background = Black
    /\ scheme_call.base_color = None
    /\ len_(_gradient) = 100

\* C9: an event that arrives with a resolved colour in its data bag keeps
\* it: the colour is not resolved again and the cached colour is what is
\* written to its coordinates.
C9_CachedColorReused ==
    \A i \in DOMAIN events_in :
        REACT_COLOR_KEY \in DOMAIN events_in[i].data =>
            /\ events[i].data[REACT_COLOR_KEY] = events_in[i].data[REACT_COLOR_KEY]
            /\ HasCoords(events_in[i]) =>
                   \A k \in 1..Len(events_in[i].coords.items) :
                       writes[CoordsBefore(events_in, i) + k].color
                           = events_in[i].data[REACT_COLOR_KEY]

\* the constructor's default-initialisation step
DefaultInitStep == ~constructed /\ constructed'

\* C10: the default-initialisation step keeps key_expire_time when a speed
\* change has been handled before it, and keeps the gradient table when a
\* colour change with a defined value has been handled before it; it applies
\* the default speed (6, so 1.0 s) and the default colours (white over
\* black) only when no such change has been handled.
C10_DefaultsRespectExplicit ==
    [][DefaultInitStep =>
        /\ "speed" \in applied =>
               (key_expire_time' = key_expire_time /\ "default_speed" \notin applied')
        /\ "speed" \notin applied =>
               (key_expire_time' = 100 /\ "default_speed" \in applied')
        /\ "colors" \in applied =>
               /\ _gradient' = _gradient
               /\ _gradient_count' = _gradient_count
               /\ scheme_call' = scheme_call
        /\ "colors" \notin applied =>
               /\ _gradient' = color_scheme(White, Black, 100)
               /\ scheme_call'.caller = "__init__"
      ]_vars

\* constructed from an explicit speed of 1 and explicit colours: neither
\* default was applied
C10_Witness ==
    /\ constructed
    /\ applied = {"speed", "colors"}
    /\ key_expire_time = 225
    /\ scheme_call.caller = "_update_colors"

====
